---- MODULE Spec2Model ----
(***************************************************************************)
(* The two ttbin dump programs of the repository, run over one input file: *)
(*   "legacy"  = src/ttbin.c            (file format 05)                   *)
(*   "current" = src/unnamed/part_000   (file format 07)                   *)
(* Each program is a forward-only pass: read one tag byte, overlay the     *)
(* packed struct of that tag on the next bytes, print it.                  *)
(***************************************************************************)
EXTENDS Integers, Sequences, FiniteSets, TLC

\* ------------------------------------------------------------------ bounds
\* Number of records concatenated to make an input file.
MaxRecs == 2
\* Number of bytes that may be missing from the end of the input file.
MaxCut == 1

\* ------------------------------------------------------------- programs
Progs == {"legacy", "current"}

\* ---------------------------------------------------------- byte helpers
Pow256(i) == IF i = 0 THEN 1 ELSE IF i = 1 THEN 256 ELSE IF i = 2 THEN 65536 ELSE 16777216

\* Little-endian value of the w bytes of b that start at 0-based offset off
\* (what a packed struct overlay yields on the little-endian hosts the
\* format is defined for).
RECURSIVE U(_, _, _)
U(b, off, w) == IF w = 0 THEN 0 ELSE b[off + 1] + 256 * U(b, off + 1, w - 1)

\* A uint32_t is kept as its two 16-bit halves <<high, low>>, so that every
\* value of the type is representable; int32_t, uint16_t and uint8_t are
\* plain integers.
U32(b, off) == <<U(b, off + 2, 2), U(b, off, 2)>>

\* A 32-bit pattern seen as int32_t (also what printf's %i shows for a
\* uint32_t argument).
ToInt32(v) == IF v[1] >= 32768 THEN (v[1] - 65536) * 65536 + v[2]
              ELSE v[1] * 65536 + v[2]

\* uint32_t arithmetic: a + n modulo 2^32, for a small n.
Add32(a, n) == <<(a[1] + (a[2] + n) \div 65536) % 65536, (a[2] + n) % 65536>>

\* Conversion of a uint32_t argument to a uint8_t parameter.
ToUint8(v) == v[2] % 256

\* ---------------------------------------------------------- struct layouts
\* A packed struct is a sequence of <<field name, scalar type, count>>;
\* count = 0 is a scalar field, count > 0 an array of that many elements.
TypeWidth(t) == CASE t = "u8" -> 1 [] t = "u16" -> 2
                  [] t = "u32" -> 4 [] t = "i32" -> 4 [] t = "f32" -> 4

FieldWidth(fld) == TypeWidth(fld[2]) * (IF fld[3] = 0 THEN 1 ELSE fld[3])

\* sizeof of the first n fields of a packed struct (no padding).
RECURSIVE SizeofPrefix(_, _)
SizeofPrefix(layout, n) ==
  IF n = 0 THEN 0 ELSE SizeofPrefix(layout, n - 1) + FieldWidth(layout[n])

Sizeof(layout) == SizeofPrefix(layout, Len(layout))

FieldNames(layout) == {layout[i][1] : i \in 1..Len(layout)}

FieldIndex(layout, name) == CHOOSE i \in 1..Len(layout) : layout[i][1] = name

\* Value of one field of the struct overlaid on the bytes b.
FieldValue(layout, b, name) ==
  LET i   == FieldIndex(layout, name)
      off == SizeofPrefix(layout, i - 1)
      fld == layout[i]
  IN  IF fld[3] > 0 THEN SubSeq(b, off + 1, off + FieldWidth(fld))
      ELSE IF fld[2] = "i32" THEN ToInt32(U32(b, off))
      ELSE IF fld[2] = "f32" THEN <<"float", U32(b, off)>>
      ELSE IF fld[2] = "u32" THEN U32(b, off)
      ELSE U(b, off, TypeWidth(fld[2]))

\* The struct overlaid on the bytes b, as a record of its fields.
Overlay(layout, b) == [name \in FieldNames(layout) |-> FieldValue(layout, b, name)]

\* ---- src/ttbin.c
LegacyHeader ==
  << <<"magic", "u16", 0>>, <<"version", "u8", 4>>, <<"unkown1", "u16", 0>>,
     <<"timestamp", "u32", 0>>, <<"unknown2", "u8", 105>> >>

LegacyGPS ==
  << <<"latitude", "i32", 0>>, <<"longitude", "i32", 0>>, <<"u1", "u16", 0>>,
     <<"speed", "u16", 0>>, <<"u2", "u16", 0>>, <<"time", "u32", 0>>,
     <<"calories", "u32", 0>>, <<"u3", "u16", 0>>, <<"distance", "u16", 0>>,
     <<"u4", "u8", 0>> >>

LegacyHeartRate == << <<"heart_rate", "u16", 0>>, <<"time", "u32", 0>> >>

LegacyLap == << <<"lap", "u8", 0>>, <<"activity", "u8", 0>>, <<"time", "u32", 0>> >>

\* Mutant: the time comes first in the struct.
MutLegacyUnknownAndTime == << <<"time", "u32", 0>>, <<"u", "u8", 2>> >>

LegacyUnknownAndTime == << <<"u", "u8", 2>>, <<"time", "u32", 0>> >>

LegacySummary ==
  << <<"activity_type", "u32", 0>>, <<"distance", "u32", 0>>,
     <<"duration", "u32", 0>>, <<"calories", "u32", 0>> >>

LegacyTreadmill ==
  << <<"time", "u32", 0>>, <<"distance", "f32", 0>>, <<"calories", "u32", 0>>,
     <<"steps", "u32", 0>>, <<"u2", "u16", 0>> >>

LegacyR23 ==
  << <<"u1", "u16", 0>>, <<"u2", "u16", 0>>, <<"u3", "u8", 0>>, <<"u4", "u8", 4>>,
     <<"u5", "u8", 4>>, <<"u6", "u16", 0>>, <<"u7", "u8", 4>> >>

LegacySwim == << <<"time", "u32", 0>>, <<"u", "u8", 14>>, <<"calories", "u32", 0>> >>

\* ---- src/unnamed/part_000
CurrentHeader ==
  << <<"file_format", "u8", 0>>, <<"version", "u8", 4>>, <<"unkown1", "u16", 0>>,
     <<"timestamp", "u32", 0>>, <<"unknown2", "u8", 105>> >>

CurrentRecordLengths == << <<"entries", "u8", 69>> >>

CurrentGPS ==
  << <<"latitude", "i32", 0>>, <<"longitude", "i32", 0>>, <<"heading", "u16", 0>>,
     <<"speed", "u16", 0>>, <<"time", "u32", 0>>, <<"calories", "u16", 0>>,
     <<"inc_distance", "f32", 0>>, <<"cum_distance", "f32", 0>>,
     <<"cycles", "u8", 0>> >>

CurrentHeartRate ==
  << <<"heart_rate", "u8", 0>>, <<"u1", "u8", 0>>, <<"time", "u32", 0>> >>

CurrentLap == << <<"lap", "u8", 0>>, <<"activity", "u8", 0>>, <<"time", "u32", 0>> >>

CurrentUnknownAndTime == << <<"u", "u8", 2>>, <<"time", "u32", 0>> >>

CurrentSummary ==
  << <<"activity_type", "u32", 0>>, <<"distance", "u32", 0>>,
     <<"duration", "u32", 0>>, <<"calories", "u32", 0>> >>

CurrentTreadmill ==
  << <<"time", "u32", 0>>, <<"distance", "f32", 0>>, <<"calories", "u32", 0>>,
     <<"steps", "u32", 0>>, <<"u2", "u16", 0>> >>

CurrentR23 ==
  << <<"u1", "u16", 0>>, <<"u2", "u16", 0>>, <<"u3", "u8", 0>>, <<"u4", "u8", 4>>,
     <<"u5", "u8", 4>>, <<"u6", "u16", 0>>, <<"u7", "u8", 4>> >>

\* Mutant: the unknown bytes of a swim record are 10, not 14.
MutCurrentSwim == << <<"time", "u32", 0>>, <<"u", "u8", 10>>, <<"calories", "u32", 0>> >>

CurrentSwim == << <<"time", "u32", 0>>, <<"u", "u8", 14>>, <<"calories", "u32", 0>> >>


\* ------------------------------------------------------------ input files
\* The inputs are byte sequences: records laid out as the watch writes them
\* (tag byte, then the packed little-endian payload), concatenated without
\* padding, possibly cut short at the end.
\* The w little-endian bytes of v (two's complement when v is negative).
LE(v, w) == [i \in 1..w |-> (v \div Pow256(i - 1)) % 256]

Zeros(n) == [i \in 1..n |-> 0]

Ones(n) == [i \in 1..n |-> 255]

\* 0x20: format 07, version 1.2.3.4, a timestamp, 105 unknown bytes.
HeaderRec == <<32, 7, 1, 2, 3, 4>> \o LE(0, 2) \o LE(1400000000, 4) \o Zeros(105)

\* 0x16: 69 bytes of {tag, length + 1} entries.
RecordLengthsRec == <<22>> \o <<33, 7, 0>> \o Zeros(66)

\* 0x21: lap index, activity code, time.
LapRec(lap, activity) == <<33, lap, activity>> \o LE(1400000100, 4)

\* 0x22: 27 bytes in both programs; mid is the 6 bytes at payload offsets
\* 12..17, which hold time and calories (current) or u2 and time (legacy).
GPSRec(lat, mid) ==
  <<34>> \o LE(lat, 4) \o LE(50000000, 4) \o LE(9000, 2) \o LE(250, 2)
         \o mid \o LE(7, 4) \o LE(1, 4) \o <<3>>

\* 0x23: 19 bytes.
R23Rec == <<35>> \o LE(4660, 2) \o LE(22136, 2) \o <<154>> \o Zeros(14)

\* 0x25: two bytes of heart rate (legacy) or heart rate and u1 (current), time.
HeartRateRec(b0, b1) == <<37, b0, b1>> \o LE(1400000200, 4)

\* 0x27.
SummaryRec(activity, duration) ==
  <<39>> \o LE(activity, 4) \o LE(5000, 4) \o LE(duration, 4) \o LE(321, 4)

\* 0x32.
TreadmillRec == <<50>> \o LE(1400000300, 4) \o LE(1065353216, 4) \o LE(12, 4)
                       \o LE(345, 4) \o LE(0, 2)

\* 0x34.
SwimRec == <<52>> \o LE(1400000400, 4) \o Zeros(14) \o LE(77, 4)

\* 0x35.
R35Rec == <<53, 1, 2>> \o LE(1400000500, 4)

\* The records an input file is made of. 0x99 has no decoder in either
\* program, and is also given with a byte after it that is no record of its
\* own (0x21, which the programs will take for a tag); 0x20 and 0x16 have no
\* decoder in the legacy program.
Menu ==
  { HeaderRec, RecordLengthsRec,
    LapRec(2, 9),
    GPSRec(-850000000, LE(1400000000, 4) \o LE(150, 2)),
    GPSRec(450000000, Ones(6)),
    GPSRec(450000000, Ones(4) \o LE(150, 2)),
    R23Rec,
    HeartRateRec(60, 0), HeartRateRec(60, 1),
    <<38, 1, 2, 3, 4, 5, 6>>,
    SummaryRec(7, 59), SummaryRec(256, 59), SummaryRec(2, -1),
    <<48, 170, 187>>,
    TreadmillRec, SwimRec, R35Rec,
    <<55, 9>>,
    <<153>>, <<153, 33>> }

RECURSIVE Files(_)
Files(n) ==
  IF n = 0 THEN {<<>>}
  ELSE Files(n - 1) \cup {f \o r : f \in Files(n - 1), r \in Menu}

Min(a, b) == IF a < b THEN a ELSE b

\* An input file: up to MaxRecs records, with up to MaxCut bytes missing
\* from its end.
Inputs ==
  {SubSeq(f, 1, Len(f) - Min(c, Len(f))) : f \in Files(MaxRecs), c \in 0..MaxCut}


\* ------------------------------------------------------------------ state
VARIABLES
  stream,    \* the bytes of the input file (never written)
  pc,        \* per program: "Header" (legacy, before the loop), "Running",
             \*   "Done" (main returned), "Fatal" (exit() was called)
  cursor,    \* per program: the file position of f
  eof,       \* per program: the end-of-file indicator of f
  out,       \* per program: what was written to stdout, one item per piece
  err,       \* per program: what was written to stderr
  exitCode,  \* per program: the exit status, -1 while the program runs
  last       \* per program: a record of the last loop iteration

vars == <<stream, pc, cursor, eof, out, err, exitCode, last>>

\* Mutant: every way out of the program reports success.
MutExitStatus(v) == 0

\* What exit(-1) and "return 0" from main give the parent as exit status.
ExitStatus(v) == v % 256

\* kind: what the last iteration did; tag, pos: the tag byte it read and the
\* offset of that byte; pre: stdout as it stood before the tag byte was read;
\* fields: the struct it decoded; hdrs, recs: how many Header structs and how
\* many other records have been decoded so far.
\* n: how many reads of a header or of a tag the program has made.
NoIteration == [kind |-> "none", tag |-> -1, pos |-> -1, pre |-> <<>>,
                fields |-> [none |-> 0], hdrs |-> 0, recs |-> 0, n |-> 0]

Init ==
  /\ stream \in Inputs
  /\ pc = [p \in Progs |-> IF p = "legacy" THEN "Header" ELSE "Running"]
  /\ cursor = [p \in Progs |-> 0]
  /\ eof = [p \in Progs |-> FALSE]
  /\ out = [p \in Progs |-> <<>>]
  /\ err = [p \in Progs |-> <<>>]
  /\ exitCode = [p \in Progs |-> -1]
  /\ last = [p \in Progs |-> NoIteration]

\* ------------------------------------------------------------------ stdio
\* fread(data, 1, size, f) with f at position pos: the bytes obtained, which
\* are fewer than size only when the file ends first.
Fread(pos, size) == SubSeq(stream, pos + 1, pos + Min(size, Len(stream) - pos))

\* The end-of-file indicator after a fread that obtained every byte asked
\* for and left f at position pos: clear when bytes remain; when the read
\* took the last byte of the file the C library may or may not have
\* looked beyond it.
EofAfterFullRead(pos) == IF pos = Len(stream) THEN BOOLEAN ELSE {FALSE}

\* Mutant: the offset reported is ftell(f), the position after the tag byte.
MutUnknownTagOffset(pos) == pos

\* ftell(f) - 1 in the default case, f being at position pos.
UnknownTagOffset(pos) == pos - 1

\* The condition of ReadStruct and ReadAndDump: fread(...) != size.
ShortRead(bytes, size) == Len(bytes) # size

\* ------------------------------------------------------------- rendering
GetActivityType(activity) ==
  CASE activity = 0 -> <<"Run">>
    [] activity = 1 -> <<"Cycle">>
    [] activity = 2 -> <<"Swim">>
    [] activity = 7 -> <<"Treadmill">>
    [] OTHER -> <<"Type", activity>>

GetGMTTime(seconds) == <<"GMT", seconds>>

GetLocalTime(seconds) == <<"Local", seconds>>

\* printf's %i given a uint32_t.
PrintfI32(v) == ToInt32(v)

\* x * scale, kept exact: the raw integer and the scale it is multiplied by.
Scaled(raw, scale) == <<raw, scale>>

NL == <<"\n">>

\* Dump and the loop of ReadAndDump: " %02X" per byte, a newline after every
\* 32nd byte and after a last partial line.
RECURSIVE Dump(_)
Dump(data) ==
  IF Len(data) = 0 THEN <<>>
  ELSE IF Len(data) >= 32
       THEN <<<<"hex", SubSeq(data, 1, 32)>>, NL>> \o Dump(SubSeq(data, 33, Len(data)))
       ELSE <<<<"hex", data>>, NL>>


RenderHeader(header) ==
  {<< <<"Header", GetGMTTime(header.timestamp), header.file_format, header.version>> >>}

RenderRecordLengths(record_lengths) == {<< <<"Record lengths (ignored)">> >>}

LegacyRenderLap(lap) ==
  {<< <<"Lap", GetLocalTime(lap.time), lap.lap, GetActivityType(lap.activity)>> >>}

CurrentRenderLap(lap) ==
  {<< <<"Lap", GetGMTTime(lap.time), lap.lap, GetActivityType(lap.activity)>> >>}

\* Mutant: the sentinel is taken to be 16 bits wide.
MutGpsHasLock(gps) == gps.time # <<0, 65535>>

\* gps.time != 0xffffffff
GpsHasLock(gps) == gps.time # <<65535, 65535>>

NoGpsLock == <<"No GPS lock">>

LegacyRenderGPS(gps) ==
  IF GpsHasLock(gps)
  THEN {<< <<"GPS", GetLocalTime(gps.time), Scaled(gps.latitude, "1e-7"),
             Scaled(gps.longitude, "1e-7"), Scaled(gps.speed, "0.01"),
             <<"values", PrintfI32(gps.calories), Scaled(gps.distance, "0.1"),
               gps.u1, gps.u2, gps.u3, gps.u4>> >>, NL >>}
  ELSE {<<NoGpsLock, NL>>}

\* The arguments after gps.speed do not match the conversions of the format
\* (calories, cycles, cum_distance, inc_distance, heading for %i %f %f %i
\* %.2f): where integers and doubles travel in separate registers each
\* conversion still finds a value of its type, elsewhere the line's tail after
\* "Cal:" is garbage.
CurrentGpsTail(gps) ==
  { <<"values", gps.calories, gps.cum_distance, gps.inc_distance, gps.cycles,
      Scaled(gps.heading, "0.01")>>,
    <<"garbled", gps.calories>> }

CurrentRenderGPS(gps) ==
  IF GpsHasLock(gps)
  THEN { << <<"GPS", GetLocalTime(gps.time), Scaled(gps.latitude, "1e-7"),
              Scaled(gps.longitude, "1e-7"), Scaled(gps.speed, "0.01"), tail>>, NL >>
         : tail \in CurrentGpsTail(gps) }
  ELSE {<<NoGpsLock, NL>>}

RenderR23(r23, bytes) == {<< <<"Tag 0x23", r23.u1, r23.u2, r23.u3>> >> \o Dump(bytes)}

RenderHeart(heart) == {<< <<"Heart BPM", GetGMTTime(heart.time), heart.heart_rate>> >>}

\* summary.duration + 1
SummaryDuration(summary) == Add32(summary.duration, 1)

RenderSummary(summary) ==
  {<< <<"Summary", GetActivityType(ToUint8(summary.activity_type)),
        PrintfI32(summary.distance),
        PrintfI32(SummaryDuration(summary)), PrintfI32(summary.calories)>> >>}

RenderTreadmill(treadmill) ==
  {<< <<"Treadmill", GetGMTTime(treadmill.time), treadmill.distance,
        PrintfI32(treadmill.calories), PrintfI32(treadmill.steps)>> >>}

RenderSwim(swim) ==
  {<< <<"Swim", GetGMTTime(swim.time), PrintfI32(swim.calories)>>,
      <<"hex", swim.u>>, NL >>}

RenderR35(r35) == {<< <<"Tag 0x35", r35.u[1], r35.u[2], GetLocalTime(r35.time)>> >>}

RenderUnknown(tag, pos) == << <<"Unknow tag", tag, UnknownTagOffset(pos)>> >>


\* ---------------------------------------------------------------- actions
\* The loop is at its top with a tag byte to read: while(!feof(f)) passed and
\* fread(buffer, 1, 1, f) obtains the byte `tag`.
TagRead(p, tag) ==
  /\ pc[p] = "Running"
  /\ ~eof[p]
  /\ Len(Fread(cursor[p], 1)) = 1
  /\ Fread(cursor[p], 1)[1] = tag

\* The iteration ends with the loop still running and f at position pos.
Continue(p, kind, tag, pos, e, text, fields) ==
  /\ cursor' = [cursor EXCEPT ![p] = pos]
  /\ eof' = [eof EXCEPT ![p] = e]
  /\ out' = [out EXCEPT ![p] = @ \o text]
  /\ last' = [last EXCEPT ![p] =
                [kind |-> kind, tag |-> tag, pos |-> cursor[p], pre |-> out[p],
                 fields |-> fields,
                 n |-> @.n + 1,
                 hdrs |-> @.hdrs + (IF kind = "header" THEN 1 ELSE 0),
                 recs |-> @.recs + (IF kind = "record" THEN 1 ELSE 0)]]
  /\ UNCHANGED <<stream, pc, err, exitCode>>

\* Mutant: the program ends without flushing stdout (_exit for exit).
MutAbort(p, tag, text) ==
  /\ pc' = [pc EXCEPT ![p] = "Fatal"]
  /\ cursor' = [cursor EXCEPT ![p] = Len(stream)]
  /\ eof' = [eof EXCEPT ![p] = TRUE]
  /\ err' = [err EXCEPT ![p] = Append(@, "Failed to read the file")]
  /\ exitCode' = [exitCode EXCEPT ![p] = ExitStatus(-1)]
  /\ last' = [last EXCEPT ![p] =
                [@ EXCEPT !.kind = "truncated", !.tag = tag, !.pos = cursor[p],
                          !.pre = out[p], !.fields = [none |-> 0], !.n = @ + 1]]
  /\ UNCHANGED <<stream, out>>

\* perror("Failed to read the file"); exit(-1): the short fread has taken
\* what was left of the file, exit flushes the text already given to stdout.
Abort(p, tag, text) ==
  /\ pc' = [pc EXCEPT ![p] = "Fatal"]
  /\ cursor' = [cursor EXCEPT ![p] = Len(stream)]
  /\ eof' = [eof EXCEPT ![p] = TRUE]
  /\ out' = [out EXCEPT ![p] = @ \o text]
  /\ err' = [err EXCEPT ![p] = Append(@, "Failed to read the file")]
  /\ exitCode' = [exitCode EXCEPT ![p] = ExitStatus(-1)]
  /\ last' = [last EXCEPT ![p] =
                [@ EXCEPT !.kind = "truncated", !.tag = tag, !.pos = cursor[p],
                          !.pre = out[p], !.fields = [none |-> 0], !.n = @ + 1]]
  /\ UNCHANGED stream

\* The printf calls that follow ReadStruct in the case named `render`.
Render(render, s, bytes) ==
  CASE render = "Header" -> RenderHeader(s)
    [] render = "RecordLengths" -> RenderRecordLengths(s)
    [] render = "LegacyLap" -> LegacyRenderLap(s)
    [] render = "CurrentLap" -> CurrentRenderLap(s)
    [] render = "LegacyGPS" -> LegacyRenderGPS(s)
    [] render = "CurrentGPS" -> CurrentRenderGPS(s)
    [] render = "R23" -> RenderR23(s, bytes)
    [] render = "Heart" -> RenderHeart(s)
    [] render = "Summary" -> RenderSummary(s)
    [] render = "Treadmill" -> RenderTreadmill(s)
    [] render = "Swim" -> RenderSwim(s)
    [] render = "R35" -> RenderR35(s)

\* A case that prints `pre`, calls ReadStruct(f, &s, sizeof(s)) and prints
\* what Render makes of the struct.
StructCase(p, tag, kind, layout, pre, render) ==
  /\ TagRead(p, tag)
  /\ \E pos \in {cursor[p] + 1}, size \in {Sizeof(layout)} :
       \E bytes \in {Fread(pos, size)} :
         IF ShortRead(bytes, size)
         THEN Abort(p, tag, pre)
         ELSE \E s \in {Overlay(layout, bytes)} :
                \E text \in Render(render, s, bytes), e \in EofAfterFullRead(pos + size) :
                  Continue(p, kind, tag, pos + size, e, pre \o text, s)

\* A case that prints "Tag 0x..: " and calls ReadAndDump(size, f).
DumpCase(p, tag, size, pre) ==
  /\ TagRead(p, tag)
  /\ \E pos \in {cursor[p] + 1} :
       \E bytes \in {Fread(pos, size)} :
         IF ShortRead(bytes, size)
         THEN Abort(p, tag, pre)
         ELSE \E e \in EofAfterFullRead(pos + size) :
                Continue(p, "record", tag, pos + size, e, pre \o Dump(bytes),
                         [buffer |-> bytes])

\* ttbin.c: the header is read before the loop and not printed.
ReadHeader(p) ==
  /\ p = "legacy"
  /\ pc[p] = "Header"
  /\ \E size \in {Sizeof(LegacyHeader)} :
       \E bytes \in {Fread(cursor[p], size)} :
         IF ShortRead(bytes, size)
         THEN Abort(p, -1, <<>>)
         ELSE \E e \in EofAfterFullRead(size) :
                /\ pc' = [pc EXCEPT ![p] = "Running"]
                /\ cursor' = [cursor EXCEPT ![p] = size]
                /\ eof' = [eof EXCEPT ![p] = e]
                /\ last' = [last EXCEPT ![p] =
                              [@ EXCEPT !.kind = "header", !.pos = 0, !.hdrs = 1, !.n = 1,
                                        !.fields = Overlay(LegacyHeader, bytes)]]
                /\ UNCHANGED <<stream, out, err, exitCode>>

\* while(!feof(f)) finds the indicator set: main returns 0.
LoopExit(p) ==
  /\ pc[p] = "Running"
  /\ eof[p]
  /\ pc' = [pc EXCEPT ![p] = "Done"]
  /\ exitCode' = [exitCode EXCEPT ![p] = ExitStatus(0)]
  /\ UNCHANGED <<stream, cursor, eof, out, err, last>>

\* Mutant: the tag byte is read with ReadStruct, which exits on a short read.
MutTagEOF(p) ==
  /\ pc[p] = "Running"
  /\ ~eof[p]
  /\ Len(Fread(cursor[p], 1)) < 1
  /\ Abort(p, -1, <<>>)

\* fread(buffer, 1, 1, f) < 1: no tag byte is left, main returns 0.
TagEOF(p) ==
  /\ pc[p] = "Running"
  /\ ~eof[p]
  /\ Len(Fread(cursor[p], 1)) < 1
  /\ pc' = [pc EXCEPT ![p] = "Done"]
  /\ eof' = [eof EXCEPT ![p] = TRUE]
  /\ exitCode' = [exitCode EXCEPT ![p] = ExitStatus(0)]
  /\ last' = [last EXCEPT ![p] =
                [@ EXCEPT !.kind = "eof", !.tag = -1, !.pos = cursor[p],
                          !.pre = out[p], !.fields = [none |-> 0], !.n = @ + 1]]
  /\ UNCHANGED <<stream, cursor, out, err>>

\* Mutant: the loop of ttbin.c has the Header case too.
MutCase0x20(p) ==
  StructCase(p, 32, "header", CurrentHeader, <<>>, "Header")

Case0x20(p) ==
  /\ p = "current"
  /\ StructCase(p, 32, "header", CurrentHeader, <<>>, "Header")

Case0x16(p) ==
  /\ p = "current"
  /\ StructCase(p, 22, "record", CurrentRecordLengths, <<>>,
                "RecordLengths")

Case0x21(p) ==
  IF p = "legacy"
  THEN StructCase(p, 33, "record", LegacyLap, <<>>, "LegacyLap")
  ELSE StructCase(p, 33, "record", CurrentLap, <<>>, "CurrentLap")

Case0x22(p) ==
  IF p = "legacy"
  THEN StructCase(p, 34, "record", LegacyGPS, <<NL>>, "LegacyGPS")
  ELSE StructCase(p, 34, "record", CurrentGPS, <<NL>>, "CurrentGPS")

Case0x23(p) ==
  StructCase(p, 35, "record", IF p = "legacy" THEN LegacyR23 ELSE CurrentR23, <<>>,
             "R23")

Case0x25(p) ==
  StructCase(p, 37, "record", IF p = "legacy" THEN LegacyHeartRate ELSE CurrentHeartRate,
             <<>>, "Heart")

Case0x26(p) == DumpCase(p, 38, 6, << <<"Tag 0x26: ">> >>)

Case0x27(p) ==
  StructCase(p, 39, "record", IF p = "legacy" THEN LegacySummary ELSE CurrentSummary,
             <<>>, "Summary")

Case0x30(p) == DumpCase(p, 48, 2, << <<"Tag 0x30: ">> >>)

Case0x32(p) ==
  StructCase(p, 50, "record", IF p = "legacy" THEN LegacyTreadmill ELSE CurrentTreadmill,
             <<>>, "Treadmill")

Case0x34(p) ==
  StructCase(p, 52, "record", IF p = "legacy" THEN LegacySwim ELSE CurrentSwim, <<>>,
             "Swim")

Case0x35(p) ==
  StructCase(p, 53, "record",
             IF p = "legacy" THEN LegacyUnknownAndTime ELSE CurrentUnknownAndTime, <<>>,
             "R35")

Case0x37(p) == DumpCase(p, 55, 1, << <<"Tag 0x37: ">> >>)

\* The tags that have a case in the switch of each program.
CaseTags(p) ==
  IF p = "legacy" THEN {33, 34, 35, 37, 38, 39, 48, 50, 52, 53, 55}
  ELSE {32, 22, 33, 34, 35, 37, 38, 39, 48, 50, 52, 53, 55}

\* default: the tag byte alone has been consumed.
CaseDefault(p) ==
  /\ pc[p] = "Running"
  /\ ~eof[p]
  /\ Len(Fread(cursor[p], 1)) = 1
  /\ LET tag == Fread(cursor[p], 1)[1]
     IN  /\ tag \notin CaseTags(p)
         /\ \E e \in EofAfterFullRead(cursor[p] + 1) :
              Continue(p, "unknown", tag, cursor[p] + 1, e,
                       RenderUnknown(tag, cursor[p] + 1), [none |-> 0])

Terminated(p) == pc[p] \in {"Done", "Fatal"}

\* The two programs are separate processes that share nothing but the file,
\* which neither writes: every interleaving of their steps gives each of them
\* the same run. One interleaving is explored, the programs taking turns read
\* by read.
Turn(p) == \A q \in Progs \ {p} : Terminated(q) \/ last[p].n <= last[q].n

\* One step of one program: the header read of ttbin.c, or one evaluation of
\* the loop condition and, when it holds, one iteration of the loop.
Next ==
  \E p \in Progs :
    \/ Turn(p) /\ ReadHeader(p)
    \/ Turn(p) /\ LoopExit(p)
    \/ Turn(p) /\ TagEOF(p)
    \/ Turn(p) /\ Case0x20(p)
    \/ Turn(p) /\ Case0x16(p)
    \/ Turn(p) /\ Case0x21(p)
    \/ Turn(p) /\ Case0x22(p)
    \/ Turn(p) /\ Case0x23(p)
    \/ Turn(p) /\ Case0x25(p)
    \/ Turn(p) /\ Case0x26(p)
    \/ Turn(p) /\ Case0x27(p)
    \/ Turn(p) /\ Case0x30(p)
    \/ Turn(p) /\ Case0x32(p)
    \/ Turn(p) /\ Case0x34(p)
    \/ Turn(p) /\ Case0x35(p)
    \/ Turn(p) /\ Case0x37(p)
    \/ Turn(p) /\ CaseDefault(p)

Spec == Init /\ [][Next]_vars

\* The programs are sequential and nothing blocks them: a step that can be
\* taken is taken.
FairSpec == Spec /\ WF_vars(Next)


\* ================================================================ claims
\* Payload lengths in bytes, per tag, as counted from the struct definitions
\* and the ReadAndDump calls of the two sources.
PayloadBytes(tag) ==
  CASE tag = 32 -> 116 [] tag = 22 -> 69 [] tag = 33 -> 6 [] tag = 34 -> 27
    [] tag = 35 -> 19 [] tag = 37 -> 6 [] tag = 38 -> 6 [] tag = 39 -> 16
    [] tag = 48 -> 2 [] tag = 50 -> 18 [] tag = 52 -> 22 [] tag = 53 -> 6
    [] tag = 55 -> 1

\* The iteration that program p has just made, if this step is one.
Iterated(p) == last'[p].n = last[p].n + 1

\* ---------------------------------------------------------------- C1
C1_Step(p) ==
  /\ (Iterated(p) /\ last'[p].kind = "unknown") =>
       LET K == cursor[p]
           T == stream[K + 1]
       IN  /\ last'[p].tag = T /\ last'[p].pos = K
           /\ T \notin CaseTags(p)
           /\ out'[p] = out[p] \o << <<"Unknow tag", T, K>> >>
           /\ cursor'[p] = K + 1
           /\ pc'[p] = "Running"
  /\ (Iterated(p) /\ last[p].kind = "unknown") =>
       IF last'[p].kind = "eof"
       THEN last[p].pos + 1 = Len(stream)
       ELSE /\ last'[p].pos = last[p].pos + 1
            /\ last'[p].tag = stream[last[p].pos + 2]

\* C1: in both programs, a tag byte T without a case, read at offset K, makes
\* the program print "Unknow tag" with T and K, leaves the cursor at K + 1 and
\* the loop running, and the next tag read is the byte at offset K + 1 (or the
\* end of the file, when there is no such byte).
C1_UnknownTag == [][\A p \in Progs : C1_Step(p)]_vars

\* A header, then 0x99 at offset 117, reported by the current program.
C1_Witness ==
  /\ last["current"].kind = "unknown"
  /\ last["current"].tag = 153
  /\ last["current"].pos = 117
  /\ cursor["current"] = 118
  /\ out["current"][Len(out["current"])] = <<"Unknow tag", 153, 117>>

\* ---------------------------------------------------------------- C2
C2_Terminal(p) ==
  /\ (exitCode[p] # -1) <=> Terminated(p)
  /\ pc[p] = "Done" =>
       /\ exitCode[p] = 0
       /\ cursor[p] = Len(stream)
       /\ last[p].kind # "truncated"
  /\ (pc[p] = "Fatal" /\ last[p].tag # -1) =>
       /\ exitCode[p] \in 1..255
       /\ last[p].kind = "truncated"
       /\ stream[last[p].pos + 1] = last[p].tag
       /\ last[p].tag \in CaseTags(p)
       /\ Len(stream) - (last[p].pos + 1) < PayloadBytes(last[p].tag)
  /\ last[p].kind \in {"record", "header"} /\ last[p].tag # -1 =>
       Len(stream) - (last[p].pos + 1) >= PayloadBytes(last[p].tag)
  /\ pc["current"] = "Fatal" => last["current"].tag # -1

\* C2: a pass ends in Done with exit status 0 exactly when the file is
\* exhausted where a tag byte is expected, and in Fatal with a nonzero exit
\* status exactly when it is exhausted after a tag that has a case and before
\* the whole payload of that tag; the loop has no other way to end. (The
\* header read of ttbin.c, which precedes its loop, is the one Fatal without
\* a tag.)
C2_TerminalOutcome == \A p \in Progs : C2_Terminal(p)

\* The current program, stopped by a lap record with 5 of its 6 payload bytes.
C2_Witness ==
  /\ pc["current"] = "Fatal"
  /\ last["current"].tag = 33
  /\ Len(stream) - (last["current"].pos + 1) = 5
  /\ exitCode["current"] = 255

\* ---------------------------------------------------------------- C3
\* What a case prints before it reads its payload.
PrintedBeforeRead(tag) ==
  CASE tag = 34 -> <<NL>>
    [] tag = 38 -> << <<"Tag 0x26: ">> >>
    [] tag = 48 -> << <<"Tag 0x30: ">> >>
    [] tag = 55 -> << <<"Tag 0x37: ">> >>
    [] OTHER -> <<>>

\* C3 as stated: at Fatal, stdout is what it was before the tag byte of the
\* truncated record was read.
C3_Original == \A p \in Progs : pc[p] = "Fatal" => out[p] = last[p].pre

\* C3, amended: at Fatal, stdout is what it was before the tag byte of the
\* truncated record was read, followed for tag 0x22 by the newline and for
\* tags 0x26, 0x30, 0x37 by the "Tag 0x..: " label that those cases print
\* before reading; no field or byte of the truncated record is printed, and
\* nothing after.
C3_NoPartialRecord ==
  \A p \in Progs :
    pc[p] = "Fatal" => out[p] = last[p].pre \o PrintedBeforeRead(last[p].tag)

\* A heart-rate record cut short after earlier output, and in the same file
\* position a program stopped inside a 0x26 record.
C3_Witness ==
  \E p \in Progs :
    /\ pc[p] = "Fatal"
    /\ last[p].tag = 38
    /\ Len(last[p].pre) > 0
    /\ out[p] = Append(last[p].pre, <<"Tag 0x26: ">>)


\* ---------------------------------------------------------------- C4
\* Offset of the time field in the GPS payload of each program.
GpsTimeOffset(p) == IF p = "legacy" THEN 14 ELSE 12

\* What program p has printed in its last iteration.
Printed(p) == SubSeq(out[p], Len(last[p].pre) + 1, Len(out[p]))

C4_Gps(p) ==
  (last[p].kind = "record" /\ last[p].tag = 34) =>
    LET payload == SubSeq(stream, last[p].pos + 2, last[p].pos + 28)
        time    == SubSeq(payload, GpsTimeOffset(p) + 1, GpsTimeOffset(p) + 4)
    IN  /\ cursor[p] = last[p].pos + 1 + 27
        /\ SubSeq(out[p], 1, Len(last[p].pre)) = last[p].pre
        /\ IF time = <<255, 255, 255, 255>>
           THEN Printed(p) = <<NL, <<"No GPS lock">>, NL>>
           ELSE /\ Len(Printed(p)) = 3
                /\ Printed(p)[1] = NL /\ Printed(p)[3] = NL
                /\ Printed(p)[2][1] = "GPS"
                /\ Printed(p)[2][3] = <<ToInt32(U32(payload, 0)), "1e-7">>
                /\ Printed(p)[2][4] = <<ToInt32(U32(payload, 4)), "1e-7">>
                /\ Printed(p)[2][5] = <<U(payload, 10, 2), "0.01">>

\* C4: in both programs a GPS record whose time field is 0xFFFFFFFF prints
\* "No GPS lock" between two newlines and nothing else, so no value taken
\* from its other fields; with any other time the line carries latitude,
\* longitude and speed as decoded from the payload. Either way the 27 payload
\* bytes are consumed.
C4_NoGpsLock == \A p \in Progs : C4_Gps(p)

\* Both programs have just printed "No GPS lock" for the same record.
C4_Witness ==
  \A p \in Progs :
    /\ last[p].kind = "record" /\ last[p].tag = 34
    /\ last[p].fields.time = <<65535, 65535>>
    /\ Printed(p) = <<NL, <<"No GPS lock">>, NL>>

\* ---------------------------------------------------------------- C5
C5_Tags == {22, 33, 35, 38, 39, 48, 50, 52, 53, 55}

\* The payload lengths of the table of external interfaces.
C5_TableBytes(tag) == IF tag = 52 THEN 18 ELSE PayloadBytes(tag)

\* C5 as stated: the table's lengths, 18 bytes for 0x34, and the first tag
\* after a leading Header at offset 113.
C5_Original ==
  LET c == last["current"]
  IN  /\ (c.kind = "record" /\ c.tag \in C5_Tags) =>
           cursor["current"] = c.pos + 1 + C5_TableBytes(c.tag)
      /\ (c.kind = "header" /\ c.pos = 0) => cursor["current"] = 113

\* C5, amended: in the current program a successful decode advances the
\* cursor by one tag byte plus 0x16 = 69, 0x21 = 6, 0x23 = 19, 0x26 = 6,
\* 0x27 = 16, 0x30 = 2, 0x32 = 18, 0x34 = 22, 0x35 = 6, 0x37 = 1 payload
\* bytes, and a leading Header occupies the first 117 bytes (tag byte and 116
\* payload bytes), so that the first tag after it is at offset 117.
C5_CursorAdvance ==
  LET c == last["current"]
  IN  /\ (c.kind = "record" /\ c.tag \in C5_Tags) =>
           cursor["current"] = c.pos + 1 +
             (CASE c.tag = 22 -> 69 [] c.tag = 33 -> 6 [] c.tag = 35 -> 19
                [] c.tag = 38 -> 6 [] c.tag = 39 -> 16 [] c.tag = 48 -> 2
                [] c.tag = 50 -> 18 [] c.tag = 52 -> 22 [] c.tag = 53 -> 6
                [] c.tag = 55 -> 1)
      /\ (c.kind = "header" /\ c.pos = 0) => cursor["current"] = 117

\* A swim record decoded right after a leading header.
C5_Witness ==
  /\ last["current"].kind = "record"
  /\ last["current"].tag = 52
  /\ last["current"].pos = 117
  /\ cursor["current"] = 140


\* ---------------------------------------------------------------- C6
\* The name the fixed table gives an activity code; code is an integer for
\* the 8-bit field of a lap and two 16-bit halves for the 32-bit field of a
\* summary, rendered is what GetActivityType returned.
C6_NameIs(rendered, hi, lo) ==
  IF hi = 0 /\ lo \in {0, 1, 2, 7}
  THEN rendered = (CASE lo = 0 -> <<"Run">> [] lo = 1 -> <<"Cycle">>
                     [] lo = 2 -> <<"Swim">> [] lo = 7 -> <<"Treadmill">>)
  ELSE /\ rendered[1] = "Type"
       /\ hi = 0
       /\ rendered[2] = lo

\* C6 as stated: after a lap or a summary is printed, the activity name in
\* the line is the table's name for the code stored in the record, and
\* "Type N" with N the stored code for every other code.
C6_ActivityName ==
  \A p \in Progs :
    /\ (last[p].kind = "record" /\ last[p].tag = 33) =>
         C6_NameIs(Printed(p)[1][4], 0, last[p].fields.activity)
    /\ (last[p].kind = "record" /\ last[p].tag = 39) =>
         C6_NameIs(Printed(p)[1][2], last[p].fields.activity_type[1],
                   last[p].fields.activity_type[2])

\* ---------------------------------------------------------------- C7
\* C7 as stated: after a summary is printed, the duration in the line is the
\* raw 32-bit duration plus one.
C7_DurationPlusOne ==
  \A p \in Progs :
    (last[p].kind = "record" /\ last[p].tag = 39) =>
      LET d == last[p].fields.duration
          r == Printed(p)[1][4]
      IN  /\ r >= 1
          /\ <<(r - 1) \div 65536, (r - 1) % 65536>> = d

\* ---------------------------------------------------------------- C8
\* C8 as stated: no record is decoded before a Header has been, and no
\* second Header is decoded.
C8_Original ==
  \A p \in Progs :
    /\ last[p].recs > 0 => last[p].hdrs >= 1
    /\ last[p].hdrs <= 1

\* C8, amended: in the legacy program (ttbin.c) the Header is the first
\* thing read, before the loop, and the only Header ever decoded: nothing is
\* decoded or printed before it, and in the loop the byte 0x20 is an unknown
\* tag. In the current program a Header is decoded whenever 0x20 is read as a
\* tag, and only then: at any position and any number of times, so it is
\* first and unique only in a file that starts with 0x20 and has no other
\* 0x20 where a tag is read.
C8_HeaderFirstOnce ==
  /\ LET l == last["legacy"]
     IN  /\ pc["legacy"] = "Header" => (l.n = 0 /\ out["legacy"] = <<>> /\ cursor["legacy"] = 0)
         /\ l.hdrs = (IF l.n >= 1 /\ ~(l.n = 1 /\ l.kind = "truncated") THEN 1 ELSE 0)
         /\ l.recs > 0 => l.hdrs = 1
         /\ (l.n >= 2 /\ l.tag = 32) => l.kind = "unknown"
  /\ LET c == last["current"]
     IN  /\ c.kind = "header" <=> (c.tag = 32 /\ c.kind # "truncated")
         /\ c.kind = "header" => c.hdrs >= 1
         /\ c.hdrs + c.recs <= c.n

\* A file of two headers: the current program has decoded both, the legacy
\* program has read the first and reported the tag byte of the second.
C8_Witness ==
  /\ last["current"].hdrs = 2
  /\ last["legacy"].hdrs = 1
  /\ last["legacy"].kind = "unknown"
  /\ last["legacy"].tag = 32
  /\ last["legacy"].pos = 117


\* ---------------------------------------------------------------- C9
C9_Tags == {33, 35, 37, 38, 39, 48, 50, 52, 53, 55}

\* Both programs have just decoded the record at the same offset.
C9_SideBySide ==
  /\ last["legacy"].kind = "record"
  /\ last["current"].kind = "record"
  /\ last["legacy"].pos = last["current"].pos
  /\ last["current"].tag \in C9_Tags

\* The two structs agree on the fields they both have, but for the fields
\* in skip.
C9_SameFields(a, b, skip) ==
  \A name \in ((DOMAIN a) \cap (DOMAIN b)) \ skip : a[name] = b[name]

\* C9 as stated: decoding the same record, the programs end at the same
\* offset with the same field values.
C9_Original ==
  C9_SideBySide =>
    /\ cursor["legacy"] = cursor["current"]
    /\ C9_SameFields(last["legacy"].fields, last["current"].fields, {})

\* C9, amended: for the tags 0x21, 0x23, 0x25, 0x26, 0x27, 0x30, 0x32, 0x34,
\* 0x35, 0x37 the two programs consume the same number of bytes, so side by
\* side their cursors stay equal, and they decode the same field values but
\* for the heart rate of 0x25: the legacy program reads both leading payload
\* bytes as a 16-bit rate, the current program reads the first as an 8-bit
\* rate and the second as an unknown byte u1, so the rates are equal only when
\* that second byte is 0 (legacy rate = current rate + 256 * u1).
C9_SharedLayouts ==
  C9_SideBySide =>
    /\ cursor["legacy"] = cursor["current"]
    /\ last["legacy"].tag = last["current"].tag
    /\ C9_SameFields(last["legacy"].fields, last["current"].fields, {"heart_rate"})
    /\ last["current"].tag # 37 =>
         DOMAIN last["legacy"].fields = DOMAIN last["current"].fields
    /\ last["current"].tag = 37 =>
         last["legacy"].fields.heart_rate =
           last["current"].fields.heart_rate + 256 * last["current"].fields.u1

\* Header, then a heart-rate record whose second payload byte is 1: equal
\* cursors, rates 316 and 60.
C9_Witness ==
  /\ C9_SideBySide
  /\ last["current"].tag = 37
  /\ last["current"].pos = 117
  /\ last["current"].fields.u1 = 1
  /\ last["legacy"].fields.heart_rate = 316
  /\ last["current"].fields.heart_rate = 60
  /\ cursor["legacy"] = 124 /\ cursor["current"] = 124

\* --------------------------------------------------------------- C10
\* Where a pass over the file ends, computed from the bytes alone: the walk
\* from offset pos, skipping one byte for a tag without a case and the
\* payload length for a tag with one.
RECURSIVE C10_Walk(_, _)
C10_Walk(p, pos) ==
  IF pos = Len(stream) THEN <<"Done", pos>>
  ELSE LET tag == stream[pos + 1]
       IN  IF tag \notin CaseTags(p) THEN C10_Walk(p, pos + 1)
           ELSE IF Len(stream) - (pos + 1) < PayloadBytes(tag)
                THEN <<"Fatal", Len(stream)>>
                ELSE C10_Walk(p, pos + 1 + PayloadBytes(tag))

C10_Outcome(p) ==
  IF p = "legacy"
  THEN IF Len(stream) < 117 THEN <<"Fatal", Len(stream)>> ELSE C10_Walk(p, 117)
  ELSE C10_Walk(p, 0)

C10_StepOf(p) ==
  /\ cursor'[p] >= cursor[p]
  /\ (Iterated(p) /\ pc[p] = "Running" /\ pc'[p] = "Running") => cursor'[p] > cursor[p]
  /\ Terminated(p) => (pc'[p] = pc[p] /\ cursor'[p] = cursor[p])

\* What is left for program p to do: the bytes not yet read, plus the steps
\* that read none (leaving the header read, leaving the loop).
C10_Rank(p) ==
  (Len(stream) - cursor[p]) +
    (IF pc[p] = "Header" THEN 2 ELSE IF pc[p] = "Running" THEN 1 ELSE 0)

\* C10: every pass reaches Done or Fatal, because a program that has not
\* ended can always take a step and each of its steps lowers a rank that is
\* never negative (so a pass is over within Len(stream) + 2 steps); the
\* cursor never moves back; an iteration that leaves the loop running moves
\* it forward by at least one byte; and the terminal state and the final
\* cursor are those the bytes of the file determine.
C10_Terminates ==
  /\ []((\E p \in Progs : ~Terminated(p)) => ENABLED Next)
  /\ [](\A p \in Progs : C10_Rank(p) >= 0)
  /\ [][\E p \in Progs : /\ C10_Rank(p)' < C10_Rank(p)
                         /\ \A q \in Progs \ {p} : C10_Rank(q)' = C10_Rank(q)]_vars
  /\ [][\A p \in Progs : C10_StepOf(p)]_vars
  /\ [](\A p \in Progs : Terminated(p) => <<pc[p], cursor[p]>> = C10_Outcome(p))

\* The same end, stated directly; it holds of the fair behaviours.
C10_Eventually == <>(\A p \in Progs : Terminated(p))

\* A pass of the current program that ended in Done after an unknown tag
\* and a decoded record, the legacy program having ended in Fatal.
C10_Witness ==
  /\ pc["current"] = "Done"
  /\ last["current"].n >= 3
  /\ cursor["current"] = Len(stream)
  /\ pc["legacy"] = "Fatal"

====
